---- MODULE Spec2Model ----
(***************************************************************************)
(* OptiCoder (src/app.py): a Streamlit script that collects a project      *)
(* context and raw interview responses, asks a completion provider for a   *)
(* structured summary, extracts the four sections of the reply and shows   *)
(* and exports them.                                                       *)
(*                                                                         *)
(* Texts are sequences of one-character strings, so that strip, split and  *)
(* join are computed as Python computes them.  A provider reply is a       *)
(* sequence of tokens: a start tag, an end tag or one character of text.   *)
(*                                                                         *)
(* Spec       one session: script reruns and the generate action.          *)
(* SpecStore  several sessions whose load and save steps of projects.json  *)
(*            interleave.                                                  *)
(***************************************************************************)
EXTENDS Naturals, Sequences, FiniteSets

VARIABLES
    file,       \* projects.json: the members of the stored JSON object
    form,       \* the widget values of the session (Spec)
    ctx,        \* the session context built by the last run (Spec)
    stage,      \* position of the generate run: idle, calling, done
    calls,      \* requests sent to the completion provider in this run
    test,       \* reply of the provider call (line 133)
    response,   \* the text the extraction reads (line 142)
    outcome,    \* how the run ended
    shownErr,   \* the text area shown beside an extraction error
    doc,        \* execs, narrative, ideas, quotes of lines 156-159
    tabs,       \* the on-screen sections of lines 162-173
    elems,      \* the export block list of lines 189-215
    sent,       \* the structured content the reply text was written from
    snap,       \* SpecStore: each session's in-memory projects dict
    spc,        \* SpecStore: each session's position in its script run
    lastSave,   \* SpecStore: per project id, the context of the latest save
    lastRun     \* SpecStore: the latest save step (session, id, snapshot)

vars == <<file, form, ctx, stage, calls, test, response, outcome, shownErr,
          doc, tabs, elems, sent, snap, spc, lastSave, lastRun>>

pipeVars == <<stage, calls, test, response, outcome, shownErr, doc, tabs,
              elems, sent>>
storeVars == <<snap, spc, lastSave, lastRun>>

(***************************************************************************)
(* Bounds of the model.                                                    *)
(***************************************************************************)
MaxItems == 2       \* Item nodes (and Idea nodes) in a reply
MaxQuotes == 2      \* Quote nodes in a reply
MaxSaves == 3       \* save steps in a behaviour of SpecStore

(***************************************************************************)
(* Program constants (lines 27-28) and the literals of the provider call   *)
(* the script makes (lines 134-136).                                       *)
(***************************************************************************)
CLAUDE_MODEL == "claude-sonnet-4-5-20250929"
MAX_CLAUDE_TOKENS == 1500
TestModel == "claude-3-5-sonnet-20241022"
TestMaxTokens == 50
TestContent == <<"Say hello">>

(***************************************************************************)
(* Python string operations on texts.                                      *)
(***************************************************************************)
Whitespace == {" ", "\n"}

RECURSIVE LStrip(_)
LStrip(s) ==
    IF s # <<>> /\ Head(s) \in Whitespace THEN LStrip(Tail(s)) ELSE s

RECURSIVE RStrip(_)
RStrip(s) ==
    IF s # <<>> /\ s[Len(s)] \in Whitespace
    THEN RStrip(SubSeq(s, 1, Len(s) - 1))
    ELSE s

\* str.strip()
Strip(s) == RStrip(LStrip(s))

\* str.split(sep): the pieces between the separators, always at least one
RECURSIVE SplitFrom(_, _, _)
SplitFrom(s, sep, cur) ==
    IF s = <<>> THEN <<cur>>
    ELSE IF Head(s) = sep THEN <<cur>> \o SplitFrom(Tail(s), sep, <<>>)
    ELSE SplitFrom(Tail(s), sep, Append(cur, Head(s)))

Split(s, sep) == SplitFrom(s, sep, <<>>)

\* sep.join(parts)
RECURSIVE Join(_, _)
Join(parts, sep) ==
    IF parts = <<>> THEN <<>>
    ELSE IF Len(parts) = 1 THEN parts[1]
    ELSE parts[1] \o <<sep>> \o Join(Tail(parts), sep)

RECURSIVE Flatten(_)
Flatten(parts) ==
    IF parts = <<>> THEN <<>> ELSE Head(parts) \o Flatten(Tail(parts))

RECURSIVE SelectNonEmpty(_)
SelectNonEmpty(parts) ==
    IF parts = <<>> THEN <<>>
    ELSE IF Head(parts) # <<>>
         THEN <<Head(parts)>> \o SelectNonEmpty(Tail(parts))
         ELSE SelectNonEmpty(Tail(parts))

\* Python's None against a str
None == [some |-> FALSE, val |-> ""]
Str(s) == [some |-> TRUE, val |-> s]
\* str(x) inside an f-string
Format(x) == IF x.some THEN x.val ELSE "None"

(***************************************************************************)
(* Step 1 of the script: the project store and the session context.        *)
(***************************************************************************)
\* json.dump of the projects dict: one member per key
JsonDump(projects) ==
    {[key |-> k, value |-> projects[k]] : k \in DOMAIN projects}

\* lines 33-37: json.load, or {} when the file does not exist
JsonLoad(members) ==
    [k \in {m.key : m \in members} |->
        (CHOOSE m \in members : m.key = k).value]

\* line 73
Questions(questions_raw) ==
    LET lines == Split(questions_raw, "\n")
    IN  SelectNonEmpty([i \in 1..Len(lines) |-> Strip(lines[i])])

\* lines 74-75
BuildCtx(f) ==
    [project_no |-> f.project_no, client_name |-> f.client_name,
     industry |-> f.industry, resp_type |-> f.resp_type,
     objectives |-> f.objectives, questions |-> Questions(f.questions_raw)]

MutStoreOnlyOwn(projects, c) ==
    [k \in {c.project_no} |-> c]

\* line 78: projects[project_no] = ctx
StoreCtx(projects, c) ==
    [k \in DOMAIN projects \cup {c.project_no} |->
        IF k = c.project_no THEN c ELSE projects[k]]

\* lines 77-80: what the file holds after the run's save
Saved(members, projects, c) ==
    IF c.project_no # "" THEN JsonDump(StoreCtx(projects, c)) ELSE members

(***************************************************************************)
(* The generate action: validation and prompt (lines 93-131).              *)
(***************************************************************************)
\* line 94: not raw.strip();  line 95: not ctx.get("questions")
MutNoValidation(raw, c) == TRUE

InputValid(raw, c) == Strip(raw) # <<>> /\ c.questions # <<>>

\* line 98
QuestionsList(qs) ==
    Join([i \in 1..Len(qs) |-> <<"- ">> \o qs[i]], "\n")

\* lines 99-106
Header(c) ==
    <<"\n", "Project: ", c.project_no, " | Client: ", c.client_name,
      " | Industry: ", c.industry, "\n", "Objectives: ", c.objectives, "\n",
      "Respondent Type: ", c.resp_type, "\n", "Questions:", "\n">>
    \o QuestionsList(c.questions) \o <<"\n", "\n">>

\* lines 123-128 and the template of lines 107-120
Instructions == <<"You are a senior qualitative research analyst ...">>
XmlTemplate == <<"\n<Summary> ... </Summary>\n">>

\* lines 121-131
Prompt(c, raw) ==
    Header(c) \o Instructions \o XmlTemplate
    \o <<"\nRaw Responses:\n">> \o raw \o <<"\n">>

\* lines 133-137: the request the script sends
Request(c, raw) ==
    [model |-> TestModel, max_tokens |-> TestMaxTokens,
     content |-> TestContent]

(***************************************************************************)
(* Reply texts.                                                            *)
(***************************************************************************)
Open(t) == [k |-> "open", tag |-> t, id |-> None, c |-> ""]
OpenId(t, a) == [k |-> "open", tag |-> t, id |-> a, c |-> ""]
Close(t) == [k |-> "close", tag |-> t, id |-> None, c |-> ""]
Chr(ch) == [k |-> "chr", tag |-> "", id |-> None, c |-> ch]

Chars(text) == [i \in 1..Len(text) |-> Chr(text[i])]

\* re.search(r"<Summary>[\s\S]*?</Summary>", response), lines 142-147:
\* the leftmost <Summary> and the first </Summary> after it
RECURSIVE IndexFrom(_, _, _)
IndexFrom(toks, tok, i) ==
    IF i > Len(toks) THEN 0
    ELSE IF toks[i] = tok THEN i
    ELSE IndexFrom(toks, tok, i + 1)

MutSearchAnyOrder(toks) ==
    LET a == IndexFrom(toks, Open("Summary"), 1)
        b == IndexFrom(toks, Close("Summary"), 1)
    IN  IF a = 0 \/ b = 0
        THEN [found |-> FALSE, xml |-> <<>>]
        ELSE [found |-> TRUE,
              xml |-> IF a < b THEN SubSeq(toks, a, b) ELSE <<>>]

Search(toks) ==
    LET a == IndexFrom(toks, Open("Summary"), 1)
        b == IF a = 0 THEN 0 ELSE IndexFrom(toks, Close("Summary"), a + 1)
    IN  IF b = 0
        THEN [found |-> FALSE, xml |-> <<>>]
        ELSE [found |-> TRUE, xml |-> SubSeq(toks, a, b)]

(***************************************************************************)
(* ET.fromstring (line 149): an element tree, or ParseError.               *)
(* An element's text is the character data before its first child.         *)
(***************************************************************************)
Node(t, a) == [tag |-> t, id |-> a, text |-> <<>>, kids |-> <<>>]
NoNode == Node("", None)
ParseError == [ok |-> FALSE, root |-> NoNode]

Special == {"&", "<"}

Pop(stack) == SubSeq(stack, 1, Len(stack) - 1)
Top(stack) == stack[Len(stack)]
WithTop(stack, n) == Append(Pop(stack), n)

RECURSIVE ParseFrom(_, _, _, _)
ParseFrom(toks, i, stack, root) ==
    IF i > Len(toks)
    THEN IF stack = <<>> /\ root # <<>>
         THEN [ok |-> TRUE, root |-> root[1]]
         ELSE ParseError                      \* unclosed element, no element
    ELSE LET t == toks[i] IN
      CASE t.k = "open" ->
             IF stack = <<>> /\ root # <<>>
             THEN ParseError                  \* junk after document element
             ELSE ParseFrom(toks, i + 1, Append(stack, Node(t.tag, t.id)),
                            root)
        [] t.k = "close" ->
             IF stack = <<>> \/ Top(stack).tag # t.tag
             THEN ParseError                  \* mismatched tag
             ELSE IF Len(stack) = 1
             THEN ParseFrom(toks, i + 1, <<>>, <<Top(stack)>>)
             ELSE LET up == stack[Len(stack) - 1]
                      grown == [up EXCEPT !.kids = Append(@, Top(stack))]
                  IN  ParseFrom(toks, i + 1, WithTop(Pop(stack), grown), root)
        [] OTHER ->
             IF t.c \in Special
             THEN ParseError                  \* not well-formed
             ELSE IF stack = <<>>
             THEN IF t.c \in Whitespace
                  THEN ParseFrom(toks, i + 1, stack, root)
                  ELSE ParseError
             ELSE IF Top(stack).kids = <<>>
             THEN ParseFrom(toks, i + 1,
                    WithTop(stack,
                            [Top(stack) EXCEPT !.text = Append(@, t.c)]),
                    root)
             ELSE ParseFrom(toks, i + 1, stack, root)   \* tail text

\* a lenient parser that closes the elements left open before an end tag
RECURSIVE MutRepair(_, _, _, _)
MutRepair(toks, i, open, out) ==
    IF i > Len(toks) THEN out
    ELSE LET t == toks[i] IN
      CASE t.k = "open" ->
             MutRepair(toks, i + 1, Append(open, t.tag), Append(out, t))
        [] t.k = "close" /\ open # <<>> /\ Top(open) # t.tag ->
             MutRepair(toks, i, Pop(open), Append(out, Close(Top(open))))
        [] t.k = "close" /\ open # <<>> ->
             MutRepair(toks, i + 1, Pop(open), Append(out, t))
        [] OTHER ->
             MutRepair(toks, i + 1, open, Append(out, t))

MutParseLenient(xml) == ParseFrom(MutRepair(xml, 1, <<>>, <<>>), 1, <<>>, <<>>)

FromString(xml) == ParseFrom(xml, 1, <<>>, <<>>)

\* Element.find(tag): the first child with the tag, or None (empty here)
RECURSIVE FindAll(_, _)
FindAll(kids, tag) ==
    IF kids = <<>> THEN <<>>
    ELSE IF Head(kids).tag = tag
         THEN <<Head(kids)>> \o FindAll(Tail(kids), tag)
         ELSE FindAll(Tail(kids), tag)

Find(node, tag) ==
    LET all == FindAll(node.kids, tag)
    IN  IF all = <<>> THEN <<>> ELSE <<all[1]>>

Reverse(s) == [i \in 1..Len(s) |-> s[Len(s) + 1 - i]]

MutTextsReversed(nodes) == Reverse([i \in 1..Len(nodes) |-> nodes[i].text])

\* [i.text or "" for i in ...]
Texts(nodes) == [i \in 1..Len(nodes) |-> nodes[i].text]

\* q.get('id'), line 159
QuoteId(q) == q.id

QuotePairs(nodes) ==
    [i \in 1..Len(nodes) |-> [rid |-> QuoteId(nodes[i]),
                               txt |-> nodes[i].text]]

NoDoc ==
    [status |-> "none", execs |-> <<>>, narrative |-> <<>>, ideas |-> <<>>,
     quotes |-> <<>>]

\* lines 156-159: find(...) of an absent section is None, and None.findall
\* raises AttributeError; findtext falls back to its default ''
Extract(root) ==
    LET ex == Find(root, "Executive")
        na == Find(root, "Narrative")
        id == Find(root, "Ideas")
        qu == Find(root, "Quotes")
    IN  IF ex = <<>> \/ id = <<>> \/ qu = <<>>
        THEN [NoDoc EXCEPT !.status = "AttributeError"]
        ELSE [status |-> "ok",
              execs |-> Texts(FindAll(ex[1].kids, "Item")),
              narrative |-> IF na = <<>> THEN <<>> ELSE na[1].text,
              ideas |-> Texts(FindAll(id[1].kids, "Idea")),
              quotes |-> QuotePairs(FindAll(qu[1].kids, "Quote"))]

(***************************************************************************)
(* Display (lines 162-173) and export (lines 182-221).                     *)
(***************************************************************************)
NoTabs ==
    [shown |-> FALSE, exec_text |-> <<>>, narrative |-> <<>>,
     ideas_text |-> <<>>, quotes |-> <<>>]

\* line 173: one text area per quote, keyed quote_<rid>
QuoteArea(q) ==
    [label |-> <<"Quote ", Format(q.rid)>>, key |-> <<"quote_", Format(q.rid)>>,
     text |-> q.txt]

\* the first quote whose widget key was already used in this run (0: none);
\* Streamlit refuses a second widget with the same key
DuplicateAt(quotes) ==
    LET dup == {j \in 1..Len(quotes) :
                  \E i \in 1..(j - 1) :
                     QuoteArea(quotes[i]).key = QuoteArea(quotes[j]).key}
    IN  IF dup = {} THEN 0 ELSE CHOOSE j \in dup : \A m \in dup : j <= m

\* lines 162-173
Tabs(d) ==
    LET n == IF DuplicateAt(d.quotes) = 0 THEN Len(d.quotes)
             ELSE DuplicateAt(d.quotes) - 1
    IN  [shown |-> TRUE,
         exec_text |-> Join(d.execs, "\n"),
         narrative |-> d.narrative,
         ideas_text |-> Join(d.ideas, "\n"),
         quotes |-> [i \in 1..n |-> QuoteArea(d.quotes[i])]]

Paragraph(text) == [k |-> "Paragraph", text |-> text]
Heading(text) == [k |-> "Heading", text |-> text]
PageBreak == [k |-> "PageBreak", text |-> <<>>]
Spacer == [k |-> "Spacer", text |-> <<>>]
RLImage == [k |-> "Image", text |-> <<>>]

\* lines 204 and 211: for line in text.split("\n"): Paragraph(f"- {line}")
Bullets(text) ==
    LET lines == Split(text, "\n")
    IN  [i \in 1..Len(lines) |-> Paragraph(<<"- ">> \o lines[i])]

\* line 215
QuoteParagraphs(quotes) ==
    [i \in 1..Len(quotes) |->
        Paragraph(<<"<b>", Format(quotes[i].rid), "</b>", ": ">>
                  \o quotes[i].txt)]

\* lines 189-215
Elems(c, d, t, logo) ==
    (IF logo THEN <<RLImage>> ELSE <<>>)
    \o <<Paragraph(<<"Project ", c.project_no, " | Client: ", c.client_name,
                     " | Industry: ", c.industry, " | Generated: ", "now">>),
         Spacer, Heading(<<"Questions:">>)>>
    \o [i \in 1..Len(c.questions) |-> Paragraph(<<"- ">> \o c.questions[i])]
    \o <<PageBreak, Heading(<<"Executive Summary">>)>>
    \o Bullets(t.exec_text)
    \o <<PageBreak, Heading(<<"Narrative Summary">>),
         Paragraph(d.narrative), PageBreak,
         Heading(<<"Ideas Worth Exploring">>)>>
    \o Bullets(t.ideas_text)
    \o <<PageBreak, Heading(<<"Top Quotes">>)>>
    \o QuoteParagraphs(d.quotes)

(***************************************************************************)
(* Lines 142-221: what the run does with the text it reads as response.    *)
(***************************************************************************)
NoShown == [label |-> "", text |-> <<>>]
Unbound == [bound |-> FALSE, text |-> <<>>]
Bound(text) == [bound |-> TRUE, text |-> text]

Ended(o, sh, d, t, e) ==
    [outcome |-> o, shownErr |-> sh, doc |-> d, tabs |-> t, elems |-> e]

Handle(resp, c, pdf_supported, logo) ==
    IF ~resp.bound
    THEN Ended("NameError", NoShown, NoDoc, NoTabs, <<>>)
    ELSE LET m == Search(resp.text) IN
      IF ~m.found
      THEN Ended("StructureNotFound",
                 [label |-> "Raw response", text |-> resp.text],
                 NoDoc, NoTabs, <<>>)
      ELSE LET parsed == FromString(m.xml) IN
        IF ~parsed.ok
        THEN Ended("MalformedMarkup", [label |-> "XML", text |-> m.xml],
                   NoDoc, NoTabs, <<>>)
        ELSE LET d == Extract(parsed.root) IN
          IF d.status # "ok"
          THEN Ended("AttributeError", NoShown, NoDoc, NoTabs, <<>>)
          ELSE IF DuplicateAt(d.quotes) # 0
          THEN Ended("DuplicateWidgetID", NoShown, d, Tabs(d), <<>>)
          ELSE Ended("ok", NoShown, d, Tabs(d),
                     IF pdf_supported THEN Elems(c, d, Tabs(d), logo)
                     ELSE <<>>)

(***************************************************************************)
(* The texts the model draws: structured contents and the ways a reply     *)
(* text is written from one.                                               *)
(***************************************************************************)
SeqsUpTo(S, n) == UNION {[1..k -> S] : k \in 0..n}

ItemTexts == {<<"A">>, <<"B">>, <<"C", "\n", "D">>}
IdeaTexts == {<<"I">>, <<>>}
NarrativeTexts == {<<>>, <<"N">>, <<"N", "\n", "M">>}
QuoteNodes ==
    {[id |-> None, text |-> <<"Q">>], [id |-> Str("R1"), text |-> <<"Q">>],
     [id |-> Str("R2"), text |-> <<>>]}

ScenarioA ==
    [execs |-> << <<"A">>, <<"B">> >>, narrative |-> <<"N">>,
     ideas |-> << <<"I">> >>,
     quotes |-> << [id |-> Str("R1"), text |-> <<"Q">>] >>]
EmptyContent ==
    [execs |-> <<>>, narrative |-> <<>>, ideas |-> <<>>, quotes |-> <<>>]

\* one field varied at a time around the two base contents
Contents ==
    UNION {
      {[b EXCEPT !.execs = e] : e \in SeqsUpTo(ItemTexts, MaxItems)}
      \cup {[b EXCEPT !.ideas = e] : e \in SeqsUpTo(IdeaTexts, MaxItems)}
      \cup {[b EXCEPT !.narrative = e] : e \in NarrativeTexts}
      \cup {[b EXCEPT !.quotes = e] : e \in SeqsUpTo(QuoteNodes, MaxQuotes)}
      : b \in {ScenarioA, EmptyContent}}

Sections == {"Executive", "Narrative", "Ideas", "Quotes"}
Shapes ==
    {"plain", "wrapped", "extra", "twice", "no_root", "swapped", "truncated",
     "unclosed", "amp", "drop_Executive", "drop_Narrative", "drop_Ideas",
     "drop_Quotes"}

Element(tag, body) == <<Open(tag)>> \o body \o <<Close(tag)>>

Leaves(tag, texts) ==
    Flatten([i \in 1..Len(texts) |-> Element(tag, Chars(texts[i]))])

QuoteLeaves(qs) ==
    Flatten([i \in 1..Len(qs) |->
        <<OpenId("Quote", qs[i].id)>> \o Chars(qs[i].text)
        \o <<Close("Quote")>>])

SectionToks(d, name) ==
    CASE name = "Executive" -> Element(name, Leaves("Item", d.execs))
      [] name = "Narrative" -> Element(name, Chars(d.narrative))
      [] name = "Ideas" -> Element(name, Leaves("Idea", d.ideas))
      [] name = "Quotes" -> Element(name, QuoteLeaves(d.quotes))

Body(d, drop) ==
    Flatten([i \in 1..4 |->
        LET name == <<"Executive", "Narrative", "Ideas", "Quotes">>[i]
        IN  IF name = drop THEN <<>> ELSE SectionToks(d, name)])

ProseToks == Chars(<<"o", "k", "\n">>)

Render(d, shape) ==
    CASE shape = "plain" -> Element("Summary", Body(d, ""))
      [] shape = "wrapped" ->
           ProseToks \o Element("Summary", Body(d, "")) \o ProseToks
      [] shape = "extra" ->
           \* an unknown element and tail text between the sections
           Element("Summary",
               Element("Note", Chars(<<"x">>)) \o Chars(<<"\n">>)
               \o SectionToks(d, "Executive") \o Chars(<<"t">>)
               \o SectionToks(d, "Narrative") \o SectionToks(d, "Ideas")
               \o Element("Note", <<>>) \o SectionToks(d, "Quotes"))
      [] shape = "twice" ->
           ProseToks \o Element("Summary", Body(d, ""))
           \o Element("Summary", Body(ScenarioA, ""))
      [] shape = "no_root" -> ProseToks \o Body(d, "")
      [] shape = "swapped" ->
           <<Close("Summary")>> \o Body(d, "") \o <<Open("Summary")>>
      [] shape = "truncated" ->
           \* the reply stops inside the Executive section
           <<Open("Summary"), Open("Executive")>> \o Leaves("Item", d.execs)
      [] shape = "unclosed" ->
           \* <Executive> is never closed
           <<Open("Summary"), Open("Executive")>> \o Leaves("Item", d.execs)
           \o SectionToks(d, "Narrative") \o SectionToks(d, "Ideas")
           \o SectionToks(d, "Quotes") \o <<Close("Summary")>> \o ProseToks
      [] shape = "amp" ->
           ProseToks \o Element("Summary",
               SectionToks(d, "Executive")
               \o Element("Narrative", Chars(d.narrative \o <<"&">>))
               \o SectionToks(d, "Ideas") \o SectionToks(d, "Quotes"))
      [] shape = "drop_Executive" -> Element("Summary", Body(d, "Executive"))
      [] shape = "drop_Narrative" -> Element("Summary", Body(d, "Narrative"))
      [] shape = "drop_Ideas" -> Element("Summary", Body(d, "Ideas"))
      [] shape = "drop_Quotes" -> Element("Summary", Body(d, "Quotes"))

NothingSent == [content |-> EmptyContent, shape |-> "none"]

\* what the provider answers to "Say hello"
TestReplies == {Chars(<<"H", "i">>)}

ProjectNos == {"", "P1"}
QuestionInputs == {<<" ", "\n">>, <<" ", "q", "\n", "\n", "p", " ">>}
RawInputs == {<<" ", "\n">>, <<"r">>}
Forms ==
    [project_no : ProjectNos, client_name : {"Acme"}, industry : {""},
     resp_type : {""}, objectives : {""}, questions_raw : QuestionInputs,
     raw : RawInputs]
EmptyForm ==
    [project_no |-> "", client_name |-> "", industry |-> "", resp_type |-> "",
     objectives |-> "", questions_raw |-> <<>>, raw |-> <<>>]

Sessions == {1, 2}
StoreIds == {"", "P1", "P2"}
NoRun == [count |-> 0, project_no |-> "", projects |-> JsonLoad({})]
StoreForm(id, client) ==
    [EmptyForm EXCEPT !.project_no = id, !.client_name = client]

(***************************************************************************)
(* The state after the first run of the script on an empty form.           *)
(***************************************************************************)
Init ==
    /\ file = {}
    /\ form = EmptyForm
    /\ ctx = BuildCtx(EmptyForm)
    /\ stage = "idle"
    /\ calls = <<>>
    /\ test = <<>>
    /\ response = Unbound
    /\ outcome = "none"
    /\ shownErr = NoShown
    /\ doc = NoDoc
    /\ tabs = NoTabs
    /\ elems = <<>>
    /\ sent = NothingSent
    /\ snap = [s \in Sessions |-> JsonLoad({})]
    /\ spc = [s \in Sessions |-> "idle"]
    /\ lastSave = JsonLoad({})
    /\ lastRun = NoRun

Cleared ==
    /\ calls' = <<>>
    /\ test' = <<>>
    /\ response' = Unbound
    /\ shownErr' = NoShown
    /\ doc' = NoDoc
    /\ tabs' = NoTabs
    /\ elems' = <<>>
    /\ sent' = NothingSent

\* lines 33-80 of one run of the script in a single session
RunStep1(f) ==
    /\ form' = f
    /\ ctx' = BuildCtx(f)
    /\ file' = Saved(file, JsonLoad(file), BuildCtx(f))

\* a widget changes: the script reruns with the button not pressed
Rerun ==
    /\ stage # "calling"
    /\ \E f \in Forms : RunStep1(f)
    /\ stage' = "idle"
    /\ outcome' = "none"
    /\ Cleared
    /\ UNCHANGED storeVars

\* the button is pressed and line 94 or line 95 stops the script
GenerateRejected ==
    /\ stage # "calling"
    /\ RunStep1(form)
    /\ ~InputValid(form.raw, BuildCtx(form))
    /\ stage' = "done"
    /\ outcome' = "InputValidationError"
    /\ Cleared
    /\ UNCHANGED storeVars

\* the button is pressed, lines 93-137: the prompt is built and the call made
GenerateCalls ==
    /\ stage # "calling"
    /\ RunStep1(form)
    /\ InputValid(form.raw, BuildCtx(form))
    /\ stage' = "calling"
    /\ outcome' = "none"
    /\ calls' = <<Request(BuildCtx(form), form.raw)>>
    /\ test' = <<>>
    /\ response' = Unbound
    /\ shownErr' = NoShown
    /\ doc' = NoDoc
    /\ tabs' = NoTabs
    /\ elems' = <<>>
    /\ sent' = NothingSent
    /\ UNCHANGED storeVars

\* the provider call raises: the exception ends the run
ProviderRaises ==
    /\ stage = "calling"
    /\ stage' = "done"
    /\ outcome' = "ProviderError"
    /\ UNCHANGED <<file, form, ctx, calls, test, response, shownErr, doc, tabs,
                   elems, sent>>
    /\ UNCHANGED storeVars

Finish(t, resp, snt, pdf_supported, logo) ==
    \E h \in {Handle(resp, ctx, pdf_supported, logo)} :
    /\ stage' = "done"
    /\ test' = t
    /\ response' = resp
    /\ sent' = snt
    /\ outcome' = h.outcome
    /\ shownErr' = h.shownErr
    /\ doc' = h.doc
    /\ tabs' = h.tabs
    /\ elems' = h.elems
    /\ UNCHANGED <<file, form, ctx, calls>>
    /\ UNCHANGED storeVars

\* Lines 132-139 are indented less than the block around them; the model
\* reads lines 93-232 in textual order as the one handler of the button.
\* The call returns into test (lines 133-139); the name response that line
\* 142 reads is assigned nowhere in the script, so the read either raises
\* NameError (this action) or finds a text (ProviderReturns)
ProviderReturnsUnbound ==
    /\ stage = "calling"
    /\ \E t \in TestReplies : Finish(t, Unbound, NothingSent, FALSE, FALSE)

\* the call returns and lines 142-221 run on a text bound to response
ProviderReturns ==
    /\ stage = "calling"
    /\ \E t \in TestReplies, d \in Contents, shape \in Shapes,
          pdf_supported \in BOOLEAN, logo \in BOOLEAN :
        /\ (~pdf_supported => ~logo)
        /\ \E text \in {Render(d, shape)} :
             Finish(t, Bound(text), [content |-> d, shape |-> shape],
                    pdf_supported, logo)

Next ==
    \/ Rerun
    \/ GenerateRejected
    \/ GenerateCalls
    \/ ProviderRaises
    \/ ProviderReturnsUnbound
    \/ ProviderReturns

Spec == Init /\ [][Next]_vars

(***************************************************************************)
(* SpecStore: sessions whose runs load and save projects.json.             *)
(***************************************************************************)
\* lines 33-37 in session s
LoadAll(s) ==
    /\ spc[s] = "idle"
    /\ snap' = [snap EXCEPT ![s] = JsonLoad(file)]
    /\ spc' = [spc EXCEPT ![s] = "loaded"]
    /\ UNCHANGED <<file, lastSave, lastRun, form, ctx>>
    /\ UNCHANGED pipeVars

\* lines 62-80 in session s
SaveAll(s) ==
    /\ spc[s] = "loaded"
    /\ lastRun.count < MaxSaves
    /\ \E id \in StoreIds, client \in {"c1", "c2"} :
        LET c == BuildCtx(StoreForm(id, client)) IN
        /\ file' = Saved(file, snap[s], c)
        /\ snap' = [snap EXCEPT ![s] =
                       IF id # "" THEN StoreCtx(snap[s], c) ELSE snap[s]]
        /\ lastSave' = IF id # ""
                       THEN [k \in DOMAIN lastSave \cup {id} |->
                               IF k = id THEN c ELSE lastSave[k]]
                       ELSE lastSave
        /\ lastRun' = IF id # ""
                      THEN [count |-> lastRun.count + 1, project_no |-> id,
                            projects |-> snap[s]]
                      ELSE lastRun
    /\ spc' = [spc EXCEPT ![s] = "idle"]
    /\ UNCHANGED <<form, ctx>>
    /\ UNCHANGED pipeVars

NextStore ==
    \/ \E s \in Sessions : LoadAll(s)
    \/ \E s \in Sessions : SaveAll(s)

SpecStore == Init /\ [][NextStore]_vars

(***************************************************************************)
(* Properties.                                                             *)
(***************************************************************************)
Blank(text) == \A i \in 1..Len(text) : text[i] \in Whitespace

Extracted == stage = "done" /\ response.bound

NothingExposed == doc = NoDoc /\ tabs = NoTabs /\ elems = <<>>

\* C1: a generate action whose raw responses are empty or whitespace only,
\* or whose question list is empty, ends in the input-validation error and
\* no request is sent to the completion provider in that run
C1_RejectedBeforeAnyCall ==
    (stage # "idle" /\ (Blank(form.raw) \/ Blank(form.questions_raw)))
        => /\ stage = "done"
           /\ outcome = "InputValidationError"
           /\ calls = <<>>
           /\ NothingExposed

\* Scenario D: responses are pasted, the question list is empty
C1_Witness ==
    /\ stage = "done"
    /\ outcome = "InputValidationError"
    /\ ~Blank(form.raw)
    /\ ctx.questions = <<>>
    /\ calls = <<>>

\* C2: a generate action that passes validation makes exactly one provider
\* call, the call carries the configured model id, the configured max_tokens
\* and the composed prompt, and the text the extraction reads is the reply
\* of that call
C2_OneCallWithComposedRequest ==
    (stage # "idle" /\ outcome # "InputValidationError")
        => /\ calls = <<[model |-> CLAUDE_MODEL,
                         max_tokens |-> MAX_CLAUDE_TOKENS,
                         content |-> Prompt(ctx, form.raw)]>>
           /\ (stage = "done" /\ outcome # "ProviderError"
                 => response = Bound(test))

\* C3: a well-formed reply whose root lacks one of the four sections ends in
\* a section-missing error; a section that is present but empty gives a
\* document with an empty value
C3_MissingSectionIsAnError ==
    /\ \A name \in Sections :
         (Extracted /\ sent.shape = "drop_" \o name)
            => outcome = "SectionMissingError" /\ NothingExposed
    /\ (Extracted /\ sent.shape = "plain" /\ sent.content = EmptyContent)
            => /\ outcome = "ok"
               /\ doc.execs = <<>> /\ doc.narrative = <<>>
               /\ doc.ideas = <<>> /\ doc.quotes = <<>>

HasBoundedRoot(text) ==
    \E i, j \in 1..Len(text) :
        i < j /\ text[i] = Open("Summary") /\ text[j] = Close("Summary")

FirstFragment(text) ==
    LET a == CHOOSE i \in 1..Len(text) :
                /\ text[i] = Open("Summary")
                /\ \A m \in 1..(i - 1) : text[m] # Open("Summary")
        b == CHOOSE j \in (a + 1)..Len(text) :
                /\ text[j] = Close("Summary")
                /\ \A m \in (a + 1)..(j - 1) : text[m] # Close("Summary")
    IN  SubSeq(text, a, b)

RECURSIVE Cancel(_)
Cancel(tags) ==
    LET inner == {i \in 1..(Len(tags) - 1) :
                    /\ tags[i].k = "open" /\ tags[i + 1].k = "close"
                    /\ tags[i].tag = tags[i + 1].tag}
    IN  IF inner = {} THEN tags
        ELSE LET i == CHOOSE m \in inner : TRUE
             IN  Cancel(SubSeq(tags, 1, i - 1) \o SubSeq(tags, i + 2, Len(tags)))

WellFormed(xml) ==
    /\ \A i \in 1..Len(xml) : xml[i].k = "chr" => xml[i].c \notin Special
    /\ Cancel(SelectSeq(xml, LAMBDA t : t.k # "chr")) = <<>>

StartsExecutiveUnclosed == sent.shape \in {"truncated", "unclosed"}

ExtractionFailures == {"StructureNotFound", "MalformedMarkup", "AttributeError"}

\* C6: each extraction failure is reported together with the complete text
\* the extraction read, and nothing of a document is exposed
C6_FailureShowsWholeReply ==
    (stage = "done" /\ outcome \in ExtractionFailures)
        => /\ shownErr.label # ""
           /\ shownErr.text = response.text
           /\ NothingExposed

StructuredShapes == {"plain", "wrapped", "extra", "twice"}

SameQuotes(got, nodes) ==
    /\ Len(got) = Len(nodes)
    /\ \A i \in 1..Len(nodes) :
         /\ got[i].txt = nodes[i].text
         /\ got[i].rid.some = nodes[i].id.some
         /\ nodes[i].id.some => got[i].rid = nodes[i].id

C8_MissingIdIsEmptyString ==
    (Extracted /\ sent.shape \in StructuredShapes)
        => /\ Len(doc.quotes) = Len(sent.content.quotes)
           /\ \A i \in 1..Len(doc.quotes) :
                ~sent.content.quotes[i].id.some
                    => /\ doc.quotes[i].rid = Str("")
                       /\ doc.quotes[i].txt = sent.content.quotes[i].text

Stored == JsonLoad(file)

\* C9 as stated: the stored entry of every project id ever saved is the
\* context of the most recent save issued for that id
C9_LastWriteWinsPerId ==
    \A id \in DOMAIN lastSave :
        id \in DOMAIN Stored /\ Stored[id] = lastSave[id]

\* C9 amended: the store is what the most recent save wrote: that save's
\* context under its own project id, and under every other id the entry of
\* the snapshot the saving session had loaded (none when the snapshot had
\* none)
C9_LastWriteWinsWholeStore ==
    lastRun.count > 0
        => /\ lastRun.project_no \in DOMAIN Stored
           /\ Stored[lastRun.project_no] = lastSave[lastRun.project_no]
           /\ \A k \in StoreIds \ {lastRun.project_no} :
                /\ k \in DOMAIN Stored <=> k \in DOMAIN lastRun.projects
                /\ k \in DOMAIN Stored => Stored[k] = lastRun.projects[k]

\* a save by a session whose snapshot was stale took another id's entry away
C9_Witness ==
    /\ lastRun.count >= 2
    /\ \E k \in DOMAIN lastSave : k \notin DOMAIN Stored

RECURSIVE UpToPageBreak(_)
UpToPageBreak(blocks) ==
    IF blocks = <<>> \/ Head(blocks) = PageBreak THEN <<>>
    ELSE <<Head(blocks)>> \o UpToPageBreak(Tail(blocks))

\* the blocks between a heading and the next page break
BlocksAfter(blocks, heading) ==
    LET at == CHOOSE i \in 1..Len(blocks) : blocks[i] = Heading(heading)
    IN  UpToPageBreak(SubSeq(blocks, at + 1, Len(blocks)))

OneBulletEach(items) ==
    [i \in 1..Len(items) |-> Paragraph(<<"- ">> \o items[i])]

\* C10: in the export block list the bullet paragraphs under "Executive
\* Summary" are one per executive item, in order, and those under "Ideas
\* Worth Exploring" one per idea; an empty sequence gives no bullet and no
\* item is split into several bullets
C10_OneBulletPerItem ==
    (stage = "done" /\ outcome = "ok" /\ elems # <<>>)
        => /\ BlocksAfter(elems, <<"Executive Summary">>)
                = OneBulletEach(doc.execs)
           /\ BlocksAfter(elems, <<"Ideas Worth Exploring">>)
                = OneBulletEach(doc.ideas)

====
